---- MODULE Spec2Model ----
(***************************************************************************)
(* The tag-indexed post directory of shad-butler (src/main.py): the footer *)
(* parser, the DynamoDB-backed store of posts, the handlers that keep the  *)
(* store in step with created and edited chat messages, and the commands   *)
(* that select posts and forward them.                                     *)
(*                                                                         *)
(* Python values are modelled as follows.                                  *)
(*   None / Optional[x]   the empty sequence <<>> / the sequence <<x>>     *)
(*   datetime.date        a record [year, month, day] of a valid date      *)
(*   'YYYY-MM-DD' string  a triple <<yyyy, mm, dd>> of the three digit     *)
(*                        groups, valid as a calendar date or not          *)
(*   str(int)             the sequence of its decimal digits               *)
(*   a chat text          a sequence of atoms: a '#name' hashtag, one      *)
(*                        whitespace character, a date-shaped substring    *)
(*                        'dddd-dd-dd', or a word no pattern matches       *)
(*   a raised exception   a record field  raised  holding its class name,  *)
(*                        "" when the call returned                        *)
(*                                                                         *)
(* The store and the transport answer every call, except that              *)
(* bot.forward_message may raise; in Spec a handler runs to completion     *)
(* before the next event is handled, in SpecRace handlers interleave at    *)
(* their awaited store and transport calls.                                *)
(***************************************************************************)
EXTENDS Integers, Sequences, FiniteSets, Bags, TLC

VARIABLES
    store,      \* the DynamoDB table 'posts': a set of items
    chat,       \* the message ids of the designated chat so far
    event,      \* the transport event the last handler was called with
    sent,       \* what the last handler sent to the user, in order
    raised,     \* the exception the last handler ended with, "" if none
    lastText,   \* per message_id: text of its last created/edited event
    repeated,   \* the last event equals the one handled just before it
    text,       \* parser specification: the text given to the parser
    footer,     \* parser specification: what parse_post_footer did on it
    snapshot,   \* selector specification: the items a scan returned
    today,      \* selector specification: Datetime.now().date()
    selected,   \* selector specification: what the selection returned
    lookup,      \* lookup specification: what find_post returned
    db,         \* lifecycle specification: the fields of context.db
    life,       \* lifecycle specification: where the process is
    codec,      \* serialization specification: a post, its item, its parse
    tasks,      \* race specification: the handlers in flight
    lastWrite,  \* race specification: what the last store writes left
    gate        \* gate specification: what the middleware did last

vars == <<store, chat, event, sent, raised, lastText, repeated,
          text, footer, snapshot, today, selected, lookup,
          db, life, codec, tasks, lastWrite, gate>>

syncVars == <<store, chat, event, sent, raised, lastText, repeated>>
parseVars == <<text, footer>>
selectVars == <<snapshot, today, selected, lookup>>
lifeVars == <<db, life>>
codecVars == <<codec>>
raceVars == <<tasks, lastWrite>>
gateVars == <<gate>>
restVars == <<lifeVars, codecVars, raceVars, gateVars>>

(***************************************************************************)
(* Bounds of the model.                                                    *)
(***************************************************************************)
MaxMsg == 2          \* message ids are 1..MaxMsg
MaxTextLen == 7      \* atoms in a text given to the parser specification
MaxSnapshot == 5     \* posts in a snapshot of the selector specification
MaxMessageId == 120  \* message ids of the serialization specification
MaxTasks == 2        \* handlers in flight in the race specification

(***************************************************************************)
(* POST                                                                    *)
(***************************************************************************)
CONTACTS == "contacts"
CHATS == "chats"
EVENT == "event"
EVENTS_ARCHIVE == "events_archive"
LECTURES_ARCHIVE == "lectures_archive"
WHOIS_HOWTO == "whois_howto"

None == <<>>

Post(message_id, type, event_date) ==
    [message_id |-> message_id, type |-> type, event_date |-> event_date]

PostFooter(type, event_date) ==
    [type |-> type, event_date |-> event_date]

(***************************************************************************)
(* datetime.date                                                           *)
(***************************************************************************)
IsLeap(y) == (y % 4 = 0 /\ y % 100 # 0) \/ y % 400 = 0

DaysInMonth(y, m) ==
    IF m = 2 THEN (IF IsLeap(y) THEN 29 ELSE 28)
    ELSE IF m \in {4, 6, 9, 11} THEN 30 ELSE 31

\* Date.fromisoformat on a 'dddd-dd-dd' string: the date, or ValueError
\* when year, month or day is out of range.
fromisoformat(s) ==
    IF /\ s[1] >= 1
       /\ s[2] >= 1 /\ s[2] <= 12
       /\ s[3] >= 1 /\ s[3] <= DaysInMonth(s[1], s[2])
    THEN [raised |-> "", value |-> <<[year |-> s[1], month |-> s[2], day |-> s[3]]>>]
    ELSE [raised |-> "ValueError", value |-> None]

\* date.isoformat(): the three zero-padded digit groups.
isoformat(d) == <<d.year, d.month, d.day>>

\* date >= date
DateGE(a, b) ==
    \/ a.year > b.year
    \/ a.year = b.year /\ a.month > b.month
    \/ a.year = b.year /\ a.month = b.month /\ a.day >= b.day

(***************************************************************************)
(* Chat texts                                                              *)
(***************************************************************************)
NoDateStr == <<0, 0, 0>>

Tag(name) == [k |-> "tag", tag |-> name, s |-> NoDateStr]    \* '#name'
Ws == [k |-> "ws", tag |-> "", s |-> NoDateStr]              \* ' '
DateShaped(s) == [k |-> "date", tag |-> "", s |-> s]         \* 'dddd-dd-dd'
Word == [k |-> "word", tag |-> "", s |-> NoDateStr]          \* 'hello'

GoodDate1 == <<2030, 5, 1>>
GoodDate2 == <<2031, 2, 28>>
BadMonth == <<2030, 13, 1>>
BadDay == <<2031, 2, 29>>

(***************************************************************************)
(* POST FOOTER                                                             *)
(***************************************************************************)
NavTypes == {CHATS, CONTACTS, EVENTS_ARCHIVE, LECTURES_ARCHIVE, WHOIS_HOWTO}

\* EVENT_POST_FOOTER_PATTERN matches at atom i: '#event', one or more
\* whitespace characters, a date-shaped substring.
EventMatchAt(t, i) ==
    /\ t[i] = Tag(EVENT)
    /\ \E j \in (i + 2)..Len(t) :
          /\ t[j].k = "date"
          /\ \A w \in (i + 1)..(j - 1) : t[w].k = "ws"

EventGroupAt(t, i) ==
    t[CHOOSE j \in (i + 2)..Len(t) :
          /\ t[j].k = "date"
          /\ \A w \in (i + 1)..(j - 1) : t[w].k = "ws"].s

Leftmost(S) == CHOOSE i \in S : \A j \in S : i <= j

\* EVENT_POST_FOOTER_PATTERN.search(text): the group of the leftmost match.
EVENT_POST_FOOTER_PATTERN(t) ==
    LET at == {i \in 1..Len(t) : EventMatchAt(t, i)}
    IN  IF at = {} THEN None ELSE <<EventGroupAt(t, Leftmost(at))>>

\* NAV_POST_FOOTER_PATTERN.search(text): the group of the leftmost match.
NAV_POST_FOOTER_PATTERN(t) ==
    LET at == {i \in 1..Len(t) : t[i].k = "tag" /\ t[i].tag \in NavTypes}
    IN  IF at = {} THEN None ELSE <<t[Leftmost(at)].tag>>

parse_post_footer(t) ==
    LET match == EVENT_POST_FOOTER_PATTERN(t)
        nav == NAV_POST_FOOTER_PATTERN(t)
    IN  IF match # None
        THEN LET event_date == fromisoformat(match[1])
             IN  IF event_date.raised # ""
                 THEN [raised |-> event_date.raised, value |-> None]
                 ELSE [raised |-> "",
                       value |-> <<PostFooter(EVENT, event_date.value)>>]
        ELSE IF nav # None
        THEN [raised |-> "", value |-> <<PostFooter(nav[1], None)>>]
        ELSE [raised |-> "", value |-> None]

(***************************************************************************)
(* DYNAMO: the table is a set of items; an item maps attribute names to    *)
(* typed values; message_id is the key of the table 'posts'.               *)
(***************************************************************************)
S == "S"
N == "N"
MESSAGE_ID_KEY == "message_id"

RECURSIVE str(_)
\* str(n) of an int n >= 0: its decimal digits.
str(n) == IF n < 10 THEN <<n>> ELSE str(n \div 10) \o <<n % 10>>

RECURSIVE int(_)
\* int(s) of a digit string.
int(s) ==
    IF Len(s) = 1 THEN s[1]
    ELSE 10 * int(SubSeq(s, 1, Len(s) - 1)) + s[Len(s)]

\* client.scan: the items in an order the store chooses.
dynamo_scan(table) ==
    {items \in [1..Cardinality(table) -> table] :
        \A i, j \in 1..Cardinality(table) : items[i] = items[j] => i = j}

dynamo_put_append(table, item) == table \cup {item}

\* client.put_item: insert the item, replacing the one with the same key.
dynamo_put(table, item) ==
    {i \in table : i[MESSAGE_ID_KEY] # item[MESSAGE_ID_KEY]} \cup {item}

\* client.delete_item: remove the item with the key, if there is one.
dynamo_delete(table, key_name, key_type, key_value) ==
    {i \in table : i[key_name][key_type] # str(key_value)}

dynamo_parse_post(item) ==
    LET message_id == int(item["message_id"][N])
        type == item["type"][S]
        event_date ==
            IF "event_date" \in DOMAIN item
            THEN fromisoformat(item["event_date"][S]).value
            ELSE None
    IN  Post(message_id, type, event_date)

\* dynamo_format_post that leaves the event_date out of the item.
dynamo_format_post_no_date(post) ==
    [type |-> [S |-> post.type],
     message_id |-> [N |-> str(post.message_id)]]

dynamo_format_post(post) ==
    LET item == [type |-> [S |-> post.type],
                 message_id |-> [N |-> str(post.message_id)]]
    IN  IF post.event_date # None
        THEN item @@ ("event_date" :> [S |-> isoformat(post.event_date[1])])
        ELSE item

read_posts(items) == [i \in 1..Len(items) |-> dynamo_parse_post(items[i])]

put_post(table, post) == dynamo_put(table, dynamo_format_post(post))

delete_post(table, message_id) ==
    dynamo_delete(table, MESSAGE_ID_KEY, N, message_id)

(***************************************************************************)
(* find_posts / find_post: message_id and type are keyword arguments,      *)
(* None when not given; Python tests them for truth before comparing.      *)
(***************************************************************************)
find_posts(posts, message_id, type) ==
    LET Test(post) ==
            \/ message_id # None /\ message_id[1] # 0
                  /\ post.message_id = message_id[1]
            \/ type # None /\ type[1] # ""
                  /\ post.type = type[1]
    IN  SelectSeq(posts, Test)

\* find_post taking the last match of the snapshot instead of the first.
find_post_last(posts, message_id, type) ==
    LET found_posts == find_posts(posts, message_id, type)
    IN  IF Len(found_posts) = 0 THEN None
        ELSE <<found_posts[Len(found_posts)]>>

find_post(posts, message_id, type) ==
    LET found == find_posts(posts, message_id, type)
    IN  IF Len(found) = 0 THEN None ELSE <<found[1]>>

(***************************************************************************)
(* HANDLERS. A handler is an operator from the table and the handler's     *)
(* inputs to [store, sent, raised]: the table it leaves, what it sent to   *)
(* the user and the exception it ended with.                               *)
(***************************************************************************)
MISSING_POSTS_TEXT == "MISSING_POSTS_TEXT"
MISSING_FORWARD_TEXT == "MISSING_FORWARD_TEXT"
NO_FUTURE_EVENTS_TEXT == "NO_FUTURE_EVENTS_TEXT"

\* CHAT_ID is read from the environment; the designated chat of the model.
\* The source subtracts it from -1_000_000_000_000; the model drops three
\* zeros from both so that the numbers fit TLC's 32-bit integers.
CHAT_ID == 0 - 1000000021
ChannelShift == 0 - 1000000000

message_url(chat_id, message_id) == <<ChannelShift - chat_id, message_id>>

\* message.answer(text=...) and bot.forward_message(...) as sent items.
Answer(txt, arg) == [kind |-> "answer", text |-> txt, arg |-> arg]
Forward(from_chat_id, message_id) ==
    [kind |-> "forward", text |-> "", arg |-> <<from_chat_id, message_id>>]

Result(table, out, exc) == [store |-> table, sent |-> out, raised |-> exc]

\* What bot.forward_message can do: return, raise one of the two
\* 'message not found' errors, or raise any other transport error.
NotFoundErrors == {"MessageToForwardNotFound", "MessageIdInvalid"}
ForwardOutcomes == {""} \cup NotFoundErrors \cup {"NetworkError"}

forward_post_catch_all(table, post, outcome) ==
    IF outcome = ""
    THEN Result(table, <<Forward(CHAT_ID, post.message_id)>>, "")
    ELSE Result(delete_post(table, post.message_id),
                <<Answer(MISSING_FORWARD_TEXT,
                         message_url(CHAT_ID, post.message_id))>>, "")

forward_post_keep(table, post, outcome) ==
    IF outcome = ""
    THEN Result(table, <<Forward(CHAT_ID, post.message_id)>>, "")
    ELSE IF outcome \in NotFoundErrors
    THEN Result(table,
                <<Answer(MISSING_FORWARD_TEXT,
                         message_url(CHAT_ID, post.message_id))>>, "")
    ELSE Result(table, <<>>, outcome)

forward_post(table, post, outcome) ==
    IF outcome = ""
    THEN Result(table, <<Forward(CHAT_ID, post.message_id)>>, "")
    ELSE IF outcome \in NotFoundErrors
    THEN Result(delete_post(table, post.message_id),
                <<Answer(MISSING_FORWARD_TEXT,
                         message_url(CHAT_ID, post.message_id))>>, "")
    ELSE Result(table, <<>>, outcome)

(***************************************************************************)
(* FUTURE EVENTS                                                           *)
(***************************************************************************)
DefaultCap == 3

RECURSIVE SortByDate(_)
\* list.sort(key=event_date): stable, ascending.
SortByDate(posts) ==
    IF Len(posts) <= 1 THEN posts
    ELSE LET init == SortByDate(SubSeq(posts, 1, Len(posts) - 1))
             last == posts[Len(posts)]
             Before(p) == DateGE(last.event_date[1], p.event_date[1])
             After(p) == ~DateGE(last.event_date[1], p.event_date[1])
         IN  SelectSeq(init, Before) \o <<last>> \o SelectSeq(init, After)

Slice(posts, cap) ==
    SubSeq(posts, 1, IF cap < Len(posts) THEN cap ELSE Len(posts))

select_future_strict(posts, cap, now) ==
    IF \E i \in 1..Len(posts) : posts[i].event_date = None
    THEN [raised |-> "TypeError", value |-> <<>>]
    ELSE LET Future(p) == DateGE(p.event_date[1], now) /\ p.event_date[1] # now
         IN  [raised |-> "",
              value |-> Slice(SortByDate(SelectSeq(posts, Future)), cap)]

\* select_future(posts, cap) with today = now. Comparing the event_date None
\* of a post that is no event with a date raises TypeError.
select_future(posts, cap, now) ==
    IF \E i \in 1..Len(posts) : posts[i].event_date = None
    THEN [raised |-> "TypeError", value |-> <<>>]
    ELSE LET Future(p) == DateGE(p.event_date[1], now)
         IN  [raised |-> "",
              value |-> Slice(SortByDate(SelectSeq(posts, Future)), cap)]

RECURSIVE forward_posts(_, _, _)

\* The loop ending at the first post whose message is not found.
forward_posts_until_missing(table, posts, outcomes) ==
    IF Len(posts) = 0 THEN Result(table, <<>>, "")
    ELSE LET first == forward_post(table, posts[1], outcomes[1])
         IN  IF first.raised # "" \/ outcomes[1] \in NotFoundErrors
             THEN first
             ELSE LET rest == forward_posts(first.store, Tail(posts),
                                            Tail(outcomes))
                  IN  Result(rest.store, first.sent \o rest.sent, rest.raised)

\* for post in posts: await forward_post(context, message, post)
forward_posts(table, posts, outcomes) ==
    IF Len(posts) = 0 THEN Result(table, <<>>, "")
    ELSE LET first == forward_post(table, posts[1], outcomes[1])
         IN  IF first.raised # "" THEN first
             ELSE LET rest == forward_posts(first.store, Tail(posts),
                                            Tail(outcomes))
                  IN  Result(rest.store, first.sent \o rest.sent, rest.raised)

\* The posts handle_future_events_command selects from the scanned items:
\* the posts of type event, then select_future of them.
future_events(items, cap, now) ==
    LET posts == find_posts(read_posts(items), None, <<EVENT>>)
    IN  IF Len(posts) = 0 THEN [raised |-> "", value |-> <<>>]
        ELSE select_future(posts, cap, now)

\* handle_future_events_command whose selection also deletes the events
\* it finds past.
handle_future_events_command_prune(table, items, now, outcomes) ==
    LET posts == find_posts(read_posts(items), None, <<EVENT>>)
        future == future_events(items, DefaultCap, now)
        past == {i \in table :
                    /\ "event_date" \in DOMAIN i
                    /\ ~ DateGE(dynamo_parse_post(i).event_date[1], now)}
    IN  IF Len(posts) = 0
        THEN Result(table, <<Answer(MISSING_POSTS_TEXT, <<EVENT>>)>>, "")
        ELSE IF future.raised # ""
        THEN Result(table, <<>>, future.raised)
        ELSE IF Len(future.value) = 0
        THEN Result(table \ past, <<Answer(NO_FUTURE_EVENTS_TEXT, <<>>)>>, "")
        ELSE forward_posts(table \ past, future.value, outcomes)

handle_future_events_command(table, items, now, outcomes) ==
    LET posts == find_posts(read_posts(items), None, <<EVENT>>)
        future == future_events(items, DefaultCap, now)
    IN  IF Len(posts) = 0
        THEN Result(table, <<Answer(MISSING_POSTS_TEXT, <<EVENT>>)>>, "")
        ELSE IF future.raised # ""
        THEN Result(table, <<>>, future.raised)
        ELSE IF Len(future.value) = 0
        THEN Result(table, <<Answer(NO_FUTURE_EVENTS_TEXT, <<>>)>>, "")
        ELSE forward_posts(table, future.value, outcomes)

(***************************************************************************)
(* NAV                                                                     *)
(***************************************************************************)
\* handle_nav_command that answers nothing when no post has the type.
handle_nav_command_silent(table, items, type, outcome) ==
    LET post == find_post(read_posts(items), None, <<type>>)
    IN  IF post # None
        THEN forward_post(table, post[1], outcome)
        ELSE Result(table, <<>>, "")

handle_nav_command(table, items, type, outcome) ==
    LET post == find_post(read_posts(items), None, <<type>>)
    IN  IF post # None
        THEN forward_post(table, post[1], outcome)
        ELSE Result(table, <<Answer(MISSING_POSTS_TEXT, <<type>>)>>, "")

(***************************************************************************)
(* CHAT                                                                    *)
(***************************************************************************)
\* new_post that keeps the event_date of the Post the table holds for the
\* message when the footer has none.
new_post_merge(table, message_id, ftr) ==
    LET old == {dynamo_parse_post(i) :
                  i \in {j \in table : int(j["message_id"][N]) = message_id}}
        event_date == IF ftr.event_date = None /\ old # {}
                      THEN (CHOOSE p \in old : TRUE).event_date
                      ELSE ftr.event_date
    IN  put_post(table, Post(message_id, ftr.type, event_date))

new_post_no_date(table, message_id, ftr) ==
    put_post(table, Post(message_id, ftr.type, None))

new_post(table, message_id, ftr) ==
    put_post(table, Post(message_id, ftr.type, ftr.event_date))

handle_chat_new_message(table, message_id, txt) ==
    LET ftr == parse_post_footer(txt)
    IN  IF ftr.raised # "" THEN Result(table, <<>>, ftr.raised)
        ELSE IF ftr.value # None
        THEN Result(new_post(table, message_id, ftr.value[1]), <<>>, "")
        ELSE Result(table, <<>>, "")

handle_chat_edited_message_lookup_first(table, items, message_id, txt) ==
    LET ftr == parse_post_footer(txt)
        post == find_post(read_posts(items), <<message_id>>, None)
    IN  IF ftr.raised # "" THEN Result(table, <<>>, ftr.raised)
        ELSE IF post # None
        THEN Result(delete_post(table, post[1].message_id), <<>>, "")
        ELSE IF ftr.value # None
        THEN Result(new_post(table, message_id, ftr.value[1]), <<>>, "")
        ELSE Result(table, <<>>, "")

\* handle_chat_edited_message that, on a text without a footer, deletes
\* the first post of the snapshot whatever its message_id.
handle_chat_edited_message_delete_first(table, items, message_id, txt) ==
    LET ftr == parse_post_footer(txt)
        posts == read_posts(items)
    IN  IF ftr.raised # "" THEN Result(table, <<>>, ftr.raised)
        ELSE IF ftr.value # None
        THEN Result(new_post(table, message_id, ftr.value[1]), <<>>, "")
        ELSE IF Len(posts) > 0
        THEN Result(delete_post(table, posts[1].message_id), <<>>, "")
        ELSE Result(table, <<>>, "")

handle_chat_edited_message(table, items, message_id, txt) ==
    LET ftr == parse_post_footer(txt)
        post == find_post(read_posts(items), <<message_id>>, None)
    IN  IF ftr.raised # "" THEN Result(table, <<>>, ftr.raised)
        ELSE IF ftr.value # None
        THEN Result(new_post(table, message_id, ftr.value[1]), <<>>, "")
        ELSE IF post # None
        THEN Result(delete_post(table, post[1].message_id), <<>>, "")
        ELSE Result(table, <<>>, "")

(***************************************************************************)
(* DB, WEBHOOK                                                             *)
(***************************************************************************)
\* class DB: the two fields of context.db.
DB(exit_stack, client) == [exit_stack |-> exit_stack, client |-> client]

\* dynamo_client: the exit stack with the client entered in it, unless
\* entering the client raises.
ClientOutcomes == {"", "ClientError"}

dynamo_client(outcome) ==
    IF outcome = ""
    THEN [raised |-> "", exit_stack |-> <<"open">>, client |-> <<"client">>]
    ELSE [raised |-> outcome, exit_stack |-> None, client |-> None]

\* DB.connect
connect(self, outcome) ==
    LET made == dynamo_client(outcome)
    IN  IF made.raised # "" THEN [db |-> self, raised |-> made.raised]
        ELSE [db |-> DB(made.exit_stack, made.client), raised |-> ""]

\* DB.close: aclose() of the exit stack; None has no aclose.
close(self) ==
    IF self.exit_stack = None THEN [db |-> self, raised |-> "AttributeError"]
    ELSE [db |-> DB(<<"closed">>, self.client), raised |-> ""]

on_startup(self, outcome) == connect(self, outcome)

\* on_shutdown that leaves the store handle as it is.
on_shutdown_keep(self) == [db |-> self, raised |-> ""]

on_shutdown(self) == close(self)

(***************************************************************************)
(* START, OTHER                                                            *)
(***************************************************************************)
START_TEXT == "START_TEXT"

\* Also true of handle_other, which sends the same answer.
handle_start_command(table) == Result(table, <<Answer(START_TEXT, <<>>)>>, "")

(***************************************************************************)
(* CHAT MEMBER                                                             *)
(***************************************************************************)
NOT_CHAT_MEMBER_TEXT == "NOT_CHAT_MEMBER_TEXT"

PRIVATE == "private"
SUPERGROUP == "supergroup"

LEFT == "left"
BANNED == "kicked"

\* What bot.get_chat_member gives for a user: the status of the member,
\* or the error UserNotFound.
MemberOutcomes == {"member", LEFT, BANNED, "UserNotFound"}

\* is_chat_member that looks for banned users only.
is_chat_member_banned_only(outcome) ==
    IF outcome = "UserNotFound" THEN FALSE
    ELSE IF outcome = BANNED THEN FALSE
    ELSE TRUE

is_chat_member(outcome) ==
    IF outcome = "UserNotFound" THEN FALSE
    ELSE IF outcome \in {LEFT, BANNED} THEN FALSE
    ELSE TRUE

\* ChatMemberMiddleware.on_pre_process_message: what it sends, and
\* CancelHandler when it raises it.
on_pre_process_message(chat_type, chat_id, outcome) ==
    IF chat_type = PRIVATE
    THEN IF is_chat_member(outcome)
         THEN [sent |-> <<>>, raised |-> ""]
         ELSE [sent |-> <<Answer(NOT_CHAT_MEMBER_TEXT, <<>>)>>,
               raised |-> "CancelHandler"]
    ELSE IF chat_id = CHAT_ID
         THEN [sent |-> <<>>, raised |-> ""]
         ELSE [sent |-> <<>>, raised |-> "CancelHandler"]

(***************************************************************************)
(* Inputs of the handlers.                                                 *)
(***************************************************************************)
MessageIds == 1..MaxMsg

\* message.text of the created and edited messages of the designated chat.
SampleTexts ==
    { <<Word>>,
      <<Word, Ws, Tag(CHATS)>>,
      <<Tag(EVENT), Ws, DateShaped(GoodDate1)>>,
      <<Tag(CONTACTS), Ws, Tag(EVENT), Ws, Ws, DateShaped(GoodDate2)>>,
      <<Tag(EVENT), Ws, DateShaped(BadMonth)>> }

\* Datetime.now().date() when a future-events command is handled.
Days == { fromisoformat(GoodDate1).value[1],
          fromisoformat(<<2031, 1, 15>>).value[1] }

Event(kind, message_id, txt, type, now, posts, outcomes) ==
    [kind |-> kind, message_id |-> message_id, text |-> txt, type |-> type,
     now |-> now, posts |-> posts, outcomes |-> outcomes]

NoEvent == Event("", 0, <<>>, "", None, <<>>, <<>>)

NotSelected == [done |-> FALSE, cap |-> 0, raised |-> "", value |-> <<>>]

NotFound == [done |-> FALSE, type |-> "", value |-> None]

\* Where the process is, and how often connect acquired a store handle
\* and close released one.
Life(pc, connects, closes) ==
    [pc |-> pc, connects |-> connects, closes |-> closes]

NoCodec == [post |-> None, item |-> None, parsed |-> None]

\* Per message, the footer its last put built the Post from, None after a
\* delete and before any write; the message the step just taken wrote
\* when an overlapped handler of an edited event took it, else 0; and the
\* messages whose handlers of edited events in flight overlap.
NoWrite ==
    [footer |-> [m \in MessageIds |-> None], raced |-> 0, overlap |-> {}]

NoGate == [chat_type |-> "", status |-> "", handler |-> ""]

InitAt(day) ==
    /\ store = {}
    /\ chat = {}
    /\ event = NoEvent
    /\ sent = <<>>
    /\ raised = ""
    /\ lastText = [m \in MessageIds |-> None]
    /\ repeated = FALSE
    /\ text = <<>>
    /\ footer = parse_post_footer(<<>>)
    /\ snapshot = <<>>
    /\ today = day
    /\ selected = NotSelected
    /\ lookup = NotFound
    /\ db = DB(<<"open">>, <<"client">>)
    /\ life = Life("serving", 1, 0)
    /\ codec = NoCodec
    /\ tasks = EmptyBag
    /\ lastWrite = NoWrite
    /\ gate = NoGate

Init == InitAt(fromisoformat(GoodDate1).value[1])

\* The handler was called with ev and ended with result.
Handled(ev, result) ==
    /\ store' = result.store
    /\ sent' = result.sent
    /\ raised' = result.raised
    /\ event' = ev
    /\ repeated' = (event = ev)
    /\ UNCHANGED <<parseVars, selectVars, codecVars, raceVars>>

\* A message is created in the designated chat: the transport gives it
\* the next message id.
ChatNewMessage ==
    \E m \in MessageIds \ chat, t \in SampleTexts :
        /\ m = Cardinality(chat) + 1
        /\ chat' = chat \cup {m}
        /\ Handled(Event("created", m, t, "", None, <<>>, <<>>),
                   handle_chat_new_message(store, m, t))

\* A message of the designated chat is edited.
ChatEditedMessage ==
    \E m \in chat, t \in SampleTexts, items \in dynamo_scan(store) :
        /\ UNCHANGED chat
        /\ Handled(Event("edited", m, t, "", None, <<>>, <<>>),
                   handle_chat_edited_message(store, items, m, t))

\* A member sends one of the five navigation commands in private.
NavCommand ==
    \E type \in NavTypes, items \in dynamo_scan(store) :
        LET post == find_post(read_posts(items), None, <<type>>)
        IN  \E outcome \in IF post = None THEN {""} ELSE ForwardOutcomes :
                UNCHANGED chat /\
                Handled(Event("nav", 0, <<>>, type, None, post,
                              IF post = None THEN <<>> ELSE <<outcome>>),
                        handle_nav_command(store, items, type, outcome))

\* The forwards a handler reaches: up to the first that raises an error
\* the handler does not catch.
Reached(outcomes) ==
    LET stop == {i \in 1..Len(outcomes) :
                    outcomes[i] \notin ({""} \cup NotFoundErrors)}
    IN  IF stop = {} THEN Len(outcomes) ELSE Leftmost(stop)

\* A member sends the future-events command in private.
FutureEventsCommand ==
    \E now \in Days, items \in dynamo_scan(store) :
        LET future == future_events(items, DefaultCap, now).value
        IN  \E outcomes \in [1..Len(future) -> ForwardOutcomes] :
                LET n == Reached(outcomes)
                IN  /\ \A i \in (n + 1)..Len(outcomes) : outcomes[i] = ""
                    /\ UNCHANGED chat
                    /\ Handled(Event("future", 0, <<>>, EVENT, <<now>>,
                                     SubSeq(future, 1, n),
                                     SubSeq(outcomes, 1, n)),
                               handle_future_events_command(
                                   store, items, now, outcomes))

\* All the handlers, one event at a time.
Next ==
    \/ ChatNewMessage /\ UNCHANGED <<lastText, lifeVars, gateVars>>
    \/ ChatEditedMessage /\ UNCHANGED <<lastText, lifeVars, gateVars>>
    \/ NavCommand /\ UNCHANGED <<lastText, lifeVars, gateVars>>
    \/ FutureEventsCommand /\ UNCHANGED <<lastText, lifeVars, gateVars>>

Spec == Init /\ [][Next]_vars

\* Created and edited messages only; lastText records, per message, the
\* text of the last event handled for it.
NextSync ==
    /\ ChatNewMessage \/ ChatEditedMessage
    /\ lastText' = [lastText EXCEPT ![event'.message_id] = <<event'.text>>]
    /\ UNCHANGED <<lifeVars, gateVars>>

SpecSync == Init /\ [][NextSync]_vars

(***************************************************************************)
(* The dispatcher with its middleware: a message passes                    *)
(* on_pre_process_message before the handler registered for it is called;  *)
(* when the middleware raises CancelHandler no handler is called.          *)
(***************************************************************************)
Gate(chat_type, outcome, handler) ==
    [chat_type |-> chat_type, status |-> outcome, handler |-> handler]

\* A chat other than the designated one.
OtherChat == CHAT_ID - 1

\* The message was cancelled by the middleware.
Cancelled(pre) ==
    /\ UNCHANGED chat
    /\ Handled(Event("cancelled", 0, <<>>, "", None, <<>>, <<>>),
               Result(store, pre.sent, pre.raised))

\* A member sends /start, or a text that is no command.
StartCommand ==
    /\ UNCHANGED chat
    /\ Handled(Event("start", 0, <<>>, "", None, <<>>, <<>>),
               handle_start_command(store))

\* A user sends a message to the bot in private.
PrivateMessage ==
    \E outcome \in MemberOutcomes :
        LET pre == on_pre_process_message(PRIVATE, 0, outcome)
        IN  IF pre.raised # ""
            THEN /\ Cancelled(pre)
                 /\ gate' = Gate(PRIVATE, outcome, "")
            ELSE /\ NavCommand \/ FutureEventsCommand \/ StartCommand
                 /\ gate' = Gate(PRIVATE, outcome, event'.kind)

\* A message is created in a group chat, the designated one or another.
GroupMessage ==
    \E chat_id \in {CHAT_ID, OtherChat} :
        LET pre == on_pre_process_message(SUPERGROUP, chat_id, "")
        IN  IF pre.raised # ""
            THEN /\ Cancelled(pre)
                 /\ gate' = Gate(SUPERGROUP, "", "")
            ELSE /\ ChatNewMessage
                 /\ gate' = Gate(SUPERGROUP, "", event'.kind)

\* The messages that pass on_pre_process_message: edited messages do not.
NextGate ==
    \/ PrivateMessage /\ UNCHANGED <<lastText, lifeVars>>
    \/ GroupMessage /\ UNCHANGED <<lastText, lifeVars>>

SpecGate == Init /\ [][NextGate]_vars

(***************************************************************************)
(* The process from start to exit. run() hands on_startup and on_shutdown  *)
(* to executor.start_webhook: on_startup is called once before the first   *)
(* update is served; when it raises the process exits. Once it returned,   *)
(* whatever ends the serving (a signal, an error of the web server) makes  *)
(* the executor call on_shutdown once before the process exits.            *)
(***************************************************************************)
InitLife ==
    /\ store = {}
    /\ chat = {}
    /\ event = NoEvent
    /\ sent = <<>>
    /\ raised = ""
    /\ lastText = [m \in MessageIds |-> None]
    /\ repeated = FALSE
    /\ text = <<>>
    /\ footer = parse_post_footer(<<>>)
    /\ snapshot = <<>>
    /\ today = fromisoformat(GoodDate1).value[1]
    /\ selected = NotSelected
    /\ lookup = NotFound
    /\ db = DB(None, None)
    /\ life = Life("created", 0, 0)
    /\ codec = NoCodec
    /\ tasks = EmptyBag
    /\ lastWrite = NoWrite
    /\ gate = NoGate

lifeRest ==
    <<store, chat, event, sent, lastText, repeated, parseVars, selectVars,
      codecVars, raceVars, gateVars>>

Startup ==
    /\ life.pc = "created"
    /\ \E outcome \in ClientOutcomes :
          LET started == on_startup(db, outcome)
          IN  /\ db' = started.db
              /\ raised' = started.raised
              /\ life' = IF started.raised = ""
                         THEN Life("serving", life.connects + 1, life.closes)
                         ELSE Life("exited", life.connects, life.closes)
    /\ UNCHANGED lifeRest

\* An update is served.
Serve ==
    /\ life.pc = "serving"
    /\ ChatNewMessage \/ ChatEditedMessage \/ NavCommand
          \/ FutureEventsCommand
    /\ UNCHANGED <<lastText, lifeVars, gateVars>>

\* The serving ends.
Stop ==
    /\ life.pc = "serving"
    /\ life' = [life EXCEPT !.pc = "stopping"]
    /\ UNCHANGED <<db, raised, lifeRest>>

Shutdown ==
    /\ life.pc = "stopping"
    /\ LET stopped == on_shutdown(db)
       IN  /\ db' = stopped.db
           /\ raised' = stopped.raised
           /\ life' = Life("exited", life.connects,
                           IF stopped.db.exit_stack # db.exit_stack
                           THEN life.closes + 1 ELSE life.closes)
    /\ UNCHANGED lifeRest

NextLife == Startup \/ Serve \/ Stop \/ Shutdown

SpecLife == InitLife /\ [][NextLife]_vars /\ WF_vars(Shutdown)

(***************************************************************************)
(* The handlers in flight together. A handler runs from one awaited call   *)
(* to the next; each store call (scan, put_item, delete_item) and each     *)
(* forward is one step, and the steps of the handlers in flight            *)
(* interleave in any order.                                                *)
(*   created  parses, then put_post if there is a footer                   *)
(*   edited   parses, then put_post if there is a footer, else read_posts  *)
(*            and, if the snapshot holds a post of the message,            *)
(*            delete_post                                                  *)
(*   nav      read_posts, then forward the post found, then delete_post    *)
(*            if the forward raised a 'not found' error                    *)
(***************************************************************************)
Task(kind, message_id, ftr, type, post, pc) ==
    [kind |-> kind, message_id |-> message_id, footer |-> ftr, type |-> type,
     post |-> post, pc |-> pc]

RaceTexts ==
    { <<Word>>,
      <<Word, Ws, Tag(CHATS)>>,
      <<Tag(EVENT), Ws, DateShaped(GoodDate1)>> }

RaceTypes == {CHATS}

\* The handlers of edited events for message m that are in flight.
Edits(bag, m) ==
    {t \in BagToSet(bag) : t.kind = "edited" /\ t.message_id = m}

\* The handler of an edited event for m starts: the handlers of edited
\* events for m in flight overlap when there was one already.
Started(m) ==
    [lastWrite EXCEPT !.raced = 0,
                      !.overlap = IF Edits(tasks, m) # {} THEN @ \cup {m}
                                  ELSE @ \ {m}]

\* A step that writes nothing.
NotWritten == [lastWrite EXCEPT !.raced = 0]

\* A handler writes for message m: a put of the Post built from ftr or,
\* when ftr is None, a delete. The write is raced when the handler is one
\* of overlapping handlers of edited events for m.
Write(t, m, ftr) ==
    [lastWrite EXCEPT !.footer[m] = ftr,
                      !.raced = IF t.kind = "edited" /\ m \in lastWrite.overlap
                                THEN m ELSE 0]

\* The overlaps end with the last handler of the message in flight.
Settle(history, bag) ==
    [history EXCEPT !.overlap = {m \in @ : Edits(bag, m) # {}}]

\* find_post(posts, message_id=message.message_id), any post instead.
edited_lookup_any(items, message_id) ==
    IF Len(items) = 0 THEN None ELSE <<read_posts(items)[1]>>

\* posts = await context.db.read_posts(); find_post(posts, message_id=...)
edited_lookup(items, message_id) ==
    find_post(read_posts(items), <<message_id>>, None)

raceRest ==
    <<event, sent, raised, lastText, repeated, parseVars, selectVars,
      lifeVars, codecVars, gateVars>>

RaceCreated ==
    \E m \in MessageIds \ chat, t \in RaceTexts :
        LET ftr == parse_post_footer(t).value
        IN  /\ m = Cardinality(chat) + 1
            /\ BagCardinality(tasks) < MaxTasks
            /\ chat' = chat \cup {m}
            /\ tasks' = IF ftr = None THEN tasks
                        ELSE tasks (+) SetToBag({Task("created", m, ftr, "",
                                                       None, "put")})
            /\ lastWrite' = NotWritten
            /\ UNCHANGED <<store, raceRest>>

RaceEdited ==
    \E m \in chat, t \in RaceTexts :
        LET ftr == parse_post_footer(t).value
        IN  /\ BagCardinality(tasks) < MaxTasks
            /\ tasks' = tasks (+) SetToBag({Task("edited", m, ftr, "", None,
                                                  IF ftr # None THEN "put"
                                                  ELSE "scan")})
            /\ lastWrite' = Started(m)
            /\ UNCHANGED <<store, chat, raceRest>>

RaceNav ==
    \E type \in RaceTypes :
        /\ BagCardinality(tasks) < MaxTasks
        /\ tasks' = tasks (+) SetToBag({Task("nav", 0, None, type, None,
                                              "scan")})
        /\ lastWrite' = NotWritten
        /\ UNCHANGED <<store, chat, raceRest>>

\* await context.db.put_post(post)
StepPut ==
    \E t \in BagToSet(tasks) :
        /\ t.pc = "put"
        /\ store' = new_post(store, t.message_id, t.footer[1])
        /\ tasks' = tasks (-) SetToBag({t})
        /\ lastWrite' = Settle(Write(t, t.message_id, t.footer), tasks')
        /\ UNCHANGED <<chat, raceRest>>

\* await context.db.read_posts(), and the lookup in the snapshot
StepScan ==
    \E t \in BagToSet(tasks), items \in dynamo_scan(store) :
        LET post == IF t.kind = "edited"
                    THEN edited_lookup(items, t.message_id)
                    ELSE find_post(read_posts(items), None, <<t.type>>)
            next == [t EXCEPT !.post = post,
                              !.pc = IF t.kind = "edited" THEN "delete"
                                     ELSE "forward"]
        IN  /\ t.pc = "scan"
            /\ tasks' = IF post = None THEN tasks (-) SetToBag({t})
                        ELSE (tasks (-) SetToBag({t})) (+) SetToBag({next})
            /\ lastWrite' = Settle(NotWritten, tasks')
            /\ UNCHANGED <<store, chat, raceRest>>

\* await context.bot.forward_message(...)
StepForward ==
    \E t \in BagToSet(tasks), outcome \in ForwardOutcomes :
        /\ t.pc = "forward"
        /\ tasks' = IF outcome \in NotFoundErrors
                    THEN (tasks (-) SetToBag({t}))
                         (+) SetToBag({[t EXCEPT !.pc = "delete"]})
                    ELSE tasks (-) SetToBag({t})
        /\ lastWrite' = NotWritten
        /\ UNCHANGED <<store, chat, raceRest>>

\* await context.db.delete_post(post.message_id)
StepDelete ==
    \E t \in BagToSet(tasks) :
        /\ t.pc = "delete"
        /\ store' = delete_post(store, t.post[1].message_id)
        /\ tasks' = tasks (-) SetToBag({t})
        /\ lastWrite' = Settle(Write(t, t.post[1].message_id, None), tasks')
        /\ UNCHANGED <<chat, raceRest>>

NextRace ==
    \/ RaceCreated
    \/ RaceEdited
    \/ RaceNav
    \/ StepPut
    \/ StepScan
    \/ StepForward
    \/ StepDelete

SpecRace == Init /\ [][NextRace]_vars

(***************************************************************************)
(* The parser on its own: a text grows atom by atom and parse_post_footer  *)
(* is applied to it.                                                       *)
(***************************************************************************)
Atoms ==
    { Tag(EVENT), Ws, DateShaped(GoodDate1), DateShaped(BadMonth),
      Tag(CHATS), Word }

Parse ==
    \E a \in Atoms :
        /\ Len(text) < MaxTextLen
        /\ text' = Append(text, a)
        /\ footer' = parse_post_footer(text')
        /\ UNCHANGED <<syncVars, selectVars, restVars>>

SpecParse == Init /\ [][Parse]_vars

(***************************************************************************)
(* The selection on its own: a snapshot grows item by item, as a scan      *)
(* returns it, and the selection of handle_future_events_command is        *)
(* applied to it.                                                          *)
(***************************************************************************)
SelectDates == {GoodDate1, <<2030, 12, 31>>, GoodDate2}

SelectDays == {fromisoformat(d).value[1] : d \in SelectDates}

Caps == 0..DefaultCap

\* The posts the program can have stored: an event with its date, a
\* navigation category without.
ScannedPosts(message_id) ==
    {Post(message_id, EVENT, fromisoformat(d).value) : d \in SelectDates}
        \cup {Post(message_id, CHATS, None), Post(message_id, CONTACTS, None)}

InitSelect == \E day \in SelectDays : InitAt(day)

Scan ==
    /\ Len(snapshot) < MaxSnapshot
    /\ \E post \in ScannedPosts(Len(snapshot) + 1) :
          snapshot' = Append(snapshot, dynamo_format_post(post))
    /\ selected' = NotSelected
    /\ lookup' = NotFound
    /\ UNCHANGED <<syncVars, parseVars, today, restVars>>

Select ==
    \E cap \in Caps :
        LET future == future_events(snapshot, cap, today)
        IN  /\ selected' = [done |-> TRUE, cap |-> cap,
                            raised |-> future.raised, value |-> future.value]
            /\ UNCHANGED <<syncVars, parseVars, snapshot, today, lookup,
                           restVars>>

NextSelect == Scan \/ Select

SpecSelect == InitSelect /\ [][NextSelect]_vars

(***************************************************************************)
(* The lookup by type on its own: find_post is applied to a snapshot that  *)
(* grows item by item.                                                     *)
(***************************************************************************)
AllTypes == NavTypes \cup {EVENT}

Find ==
    \E type \in AllTypes :
        /\ lookup' = [done |-> TRUE, type |-> type,
                     value |-> find_post(read_posts(snapshot), None,
                                         <<type>>)]
        /\ UNCHANGED <<syncVars, parseVars, snapshot, today, selected,
                       restVars>>

NextFind == Scan \/ Find

SpecFind == Init /\ [][NextFind]_vars

(***************************************************************************)
(* The serialization on its own: a post that satisfies the data model is   *)
(* formatted to an item, and the item is parsed back.                      *)
(***************************************************************************)
CodecDates == SelectDates \cup {<<1, 1, 1>>, <<2032, 2, 29>>, <<9999, 12, 31>>}

\* The posts of the data model: an event with a date, a navigation
\* category without.
CodecPosts ==
    {Post(m, EVENT, fromisoformat(d).value) :
        m \in 1..MaxMessageId, d \in CodecDates}
        \cup {Post(m, t, None) : m \in 1..MaxMessageId, t \in NavTypes}

NewPost ==
    \E post \in CodecPosts :
        /\ codec.post = None
        /\ codec' = [post |-> <<post>>, item |-> None, parsed |-> None]
        /\ UNCHANGED <<syncVars, parseVars, selectVars, lifeVars, raceVars,
                       gateVars>>

Format ==
    /\ codec.post # None
    /\ codec.item = None
    /\ codec' = [codec EXCEPT !.item = <<dynamo_format_post(codec.post[1])>>]
    /\ UNCHANGED <<syncVars, parseVars, selectVars, lifeVars, raceVars,
                   gateVars>>

ParseItem ==
    /\ codec.item # None
    /\ codec.parsed = None
    /\ codec' = [codec EXCEPT !.parsed = <<dynamo_parse_post(codec.item[1])>>]
    /\ UNCHANGED <<syncVars, parseVars, selectVars, lifeVars, raceVars,
                   gateVars>>

NextCodec == NewPost \/ Format \/ ParseItem

SpecCodec == Init /\ [][NextCodec]_vars

(***************************************************************************)
(* The posts the table holds for a message.                                *)
(***************************************************************************)
PostsOf(table, m) ==
    {dynamo_parse_post(i) : i \in {j \in table : int(j["message_id"][N]) = m}}

IsSync(ev) == ev.kind \in {"created", "edited"}

(***************************************************************************)
(* C1: after any sequence of created and edited events, handled one at a   *)
(* time, the table holds a Post for message m exactly when the text of     *)
(* the last event handled for m parses to a footer, and then exactly the   *)
(* Post with that footer's type and event_date.                            *)
(***************************************************************************)
C1_StoreFollowsLastFooter ==
    \A m \in MessageIds :
        IF lastText[m] = None THEN PostsOf(store, m) = {}
        ELSE LET ftr == parse_post_footer(lastText[m][1])
             IN  IF ftr.raised = "" /\ ftr.value # None
                 THEN PostsOf(store, m) =
                          {Post(m, ftr.value[1].type, ftr.value[1].event_date)}
                 ELSE PostsOf(store, m) = {}

(***************************************************************************)
(* C2: handling an edited event whose text holds no footer, for a message  *)
(* that has a stored Post, leaves the table with no Post for the message.  *)
(***************************************************************************)
C2_EditWithoutFooterRemoves ==
    [][(/\ event'.kind = "edited"
        /\ parse_post_footer(event'.text).value = None
        /\ PostsOf(store, event'.message_id) # {})
           => PostsOf(store', event'.message_id) = {}]_vars

(***************************************************************************)
(* C3: handling the edited event that was handled just before (same        *)
(* message, same text) leaves the table as the first handling left it.     *)
(***************************************************************************)
C3_EditIdempotent ==
    [][(/\ event.kind = "edited"
        /\ event'.kind = "edited"
        /\ event'.message_id = event.message_id
        /\ event'.text = event.text)
           => store' = store]_vars

C3_Witness ==
    /\ repeated
    /\ event.kind = "edited"
    /\ PostsOf(store, event.message_id) # {}

(***************************************************************************)
(* C4: when forwarding a Post fails with MessageToForwardNotFound or       *)
(* MessageIdInvalid, the table holds no Post for that message afterwards,  *)
(* the user was sent the 'content missing' notice for it and not the       *)
(* forwarded message, and a lookup of the message in any later scan of     *)
(* the table finds nothing.                                                *)
(***************************************************************************)
C4_StaleReferenceHealed ==
    \A i \in 1..Len(event.outcomes) :
        event.outcomes[i] \in NotFoundErrors =>
            LET m == event.posts[i].message_id
            IN  /\ PostsOf(store, m) = {}
                /\ \A items \in dynamo_scan(store) :
                      find_post(read_posts(items), <<m>>, None) = None
                /\ Len(sent) >= i
                /\ sent[i] = Answer(MISSING_FORWARD_TEXT,
                                    message_url(CHAT_ID, m))
                /\ \A k \in 1..Len(sent) : sent[k] # Forward(CHAT_ID, m)

C4_Witness ==
    /\ event.kind = "nav"
    /\ event.outcomes = <<"MessageIdInvalid">>
    /\ store # {}

(***************************************************************************)
(* C5: when forwarding a Post fails with any other transport error, the    *)
(* handler ends with that very error, nothing is sent for the Post, the    *)
(* Post stays in the table, and the table differs from the one the         *)
(* handler started with only by the Posts that earlier forwards of the     *)
(* same command found missing.                                             *)
(***************************************************************************)
C5_OtherFailuresPropagate ==
    [][(/\ event'.kind \in {"nav", "future"}
        /\ Len(event'.outcomes) > 0
        /\ event'.outcomes[Len(event'.outcomes)] \notin
               ({""} \cup NotFoundErrors))
           => LET n == Len(event'.outcomes)
                  gone == {dynamo_format_post(event'.posts[i]) :
                              i \in {j \in 1..(n - 1) :
                                        event'.outcomes[j] \in NotFoundErrors}}
              IN  /\ raised' = event'.outcomes[n]
                  /\ Len(sent') = n - 1
                  /\ dynamo_format_post(event'.posts[n]) \in store'
                  /\ store' = store \ gone]_vars

C5_Witness ==
    /\ raised = "NetworkError"
    /\ event.kind = "future"
    /\ Len(event.outcomes) = 2
    /\ event.outcomes[1] \in NotFoundErrors
    /\ dynamo_format_post(event.posts[2]) \in store

(***************************************************************************)
(* C6: every stored Post has an event_date exactly when its type is event; *)
(* the Posts of the five navigation categories have none.                  *)
(***************************************************************************)
C6_EventDateIffEvent ==
    \A item \in store :
        /\ item["type"][S] \in NavTypes \cup {EVENT}
        /\ ("event_date" \in DOMAIN item) <=> (item["type"][S] = EVENT)
        /\ (dynamo_parse_post(item).event_date # None)
               <=> (dynamo_parse_post(item).type = EVENT)

C6_Witness ==
    /\ \E item \in store : dynamo_parse_post(item).type = EVENT
    /\ \E item \in store : dynamo_parse_post(item).type \in NavTypes

(***************************************************************************)
(* C7: the table holds at most one Post per message_id: a Post written for *)
(* a message that has a record replaces the record.                        *)
(***************************************************************************)
C7_OnePostPerMessage ==
    /\ \A i, j \in store : i["message_id"] = j["message_id"] => i = j
    /\ \A m \in MessageIds : Cardinality(PostsOf(store, m)) <= 1
    /\ IsSync(event) /\ raised = ""
           /\ parse_post_footer(event.text).value # None
          => PostsOf(store, event.message_id) =
                 {Post(event.message_id,
                       parse_post_footer(event.text).value[1].type,
                       parse_post_footer(event.text).value[1].event_date)}

C7_Witness ==
    /\ repeated
    /\ IsSync(event)
    /\ PostsOf(store, event.message_id) # {}
    /\ Cardinality(store) = MaxMsg

(***************************************************************************)
(* C8: on a text whose event tag is followed by a date-shaped string that  *)
(* is no calendar date, parse does not fail and returns what the           *)
(* navigation pattern finds in the text: that footer, or nothing.          *)
(***************************************************************************)
C8_InvalidDateFallsBack ==
    LET match == EVENT_POST_FOOTER_PATTERN(text)
        nav == NAV_POST_FOOTER_PATTERN(text)
    IN  (match # None /\ fromisoformat(match[1]).raised # "")
            => /\ footer.raised = ""
               /\ footer.value = IF nav = None THEN None
                                 ELSE <<PostFooter(nav[1], None)>>

(***************************************************************************)
(* C9: on every text that holds an event tag with a date and a navigation  *)
(* tag, in either order, parse returns the event footer with that date.    *)
(***************************************************************************)
DatedEventTags(t) ==
    {i \in 1..Len(t) :
        EventMatchAt(t, i) /\ fromisoformat(EventGroupAt(t, i)).raised = ""}

C9_EventTakesPrecedence ==
    (DatedEventTags(text) # {} /\ NAV_POST_FOOTER_PATTERN(text) # None)
        => /\ footer.raised = ""
           /\ footer.value # None
           /\ footer.value[1].type = EVENT
           /\ \E i \in DatedEventTags(text) :
                 footer.value[1].event_date =
                     fromisoformat(EventGroupAt(text, i)).value

(***************************************************************************)
(* C10: the selection holds only posts of type event dated today or later, *)
(* each once, in ascending order of event_date, as many as the cap allows  *)
(* and no more, and no qualifying post left out is earlier than one        *)
(* selected; posts of other types are left out and raise nothing.          *)
(***************************************************************************)
Qualifying(posts, now) ==
    {i \in 1..Len(posts) :
        /\ posts[i].type = EVENT
        /\ posts[i].event_date # None
        /\ DateGE(posts[i].event_date[1], now)}

C10_SelectFutureEvents ==
    selected.done =>
        LET posts == read_posts(snapshot)
            res == selected.value
            qual == {posts[i] : i \in Qualifying(posts, today)}
            taken == {res[k] : k \in 1..Len(res)}
        IN  /\ selected.raised = ""
            /\ taken \subseteq qual
            /\ Cardinality(taken) = Len(res)
            /\ Len(res) = IF selected.cap < Cardinality(qual)
                          THEN selected.cap ELSE Cardinality(qual)
            /\ \A k, l \in 1..Len(res) :
                  k < l => DateGE(res[l].event_date[1], res[k].event_date[1])
            /\ \A p \in qual \ taken : \A q \in taken :
                  DateGE(p.event_date[1], q.event_date[1])

C10_Witness ==
    /\ selected.done
    /\ selected.cap = DefaultCap
    /\ Len(selected.value) = DefaultCap
    /\ Cardinality(Qualifying(read_posts(snapshot), today)) > DefaultCap
    /\ \E i \in 1..Len(snapshot) : read_posts(snapshot)[i].type # EVENT

(***************************************************************************)
(* C11: the lookup by type returns the first post, in the order of the     *)
(* snapshot, whose type is the requested one, and None when the snapshot   *)
(* holds no post of that type, the empty snapshot included.                *)
(***************************************************************************)
C11_FindByType ==
    lookup.done =>
        LET posts == read_posts(snapshot)
            match == {i \in 1..Len(posts) : posts[i].type = lookup.type}
        IN  IF match = {} THEN lookup.value = None
            ELSE lookup.value =
                    <<posts[CHOOSE i \in match : \A j \in match : i <= j]>>

\* Two posts of the requested type after one of another type.
C11_Witness ==
    /\ lookup.done
    /\ lookup.value # None
    /\ \E i, j, k \in 1..Len(snapshot) :
          /\ i < j /\ j < k
          /\ read_posts(snapshot)[i].type # lookup.type
          /\ read_posts(snapshot)[j].type = lookup.type
          /\ read_posts(snapshot)[k].type = lookup.type

(***************************************************************************)
(* C12: a navigation command handled when the store holds no Post of its   *)
(* type, and a future-events command handled when the store holds no       *)
(* event Post dated today or later, each send exactly one notice, forward  *)
(* nothing, raise no error and leave the store as it was.                  *)
(***************************************************************************)
StoredPosts(table) == {dynamo_parse_post(i) : i \in table}

Notices == {MISSING_POSTS_TEXT, NO_FUTURE_EVENTS_TEXT}

OneNotice(out) ==
    /\ Len(out) = 1
    /\ out[1].kind = "answer"
    /\ out[1].text \in Notices

C12_EmptyResult ==
    [][ /\ ( /\ event'.kind = "nav"
             /\ ~ \E p \in StoredPosts(store) : p.type = event'.type )
           => ( /\ OneNotice(sent')
                /\ sent'[1] = Answer(MISSING_POSTS_TEXT, <<event'.type>>)
                /\ raised' = ""
                /\ store' = store )
        /\ ( /\ event'.kind = "future"
             /\ ~ \E p \in StoredPosts(store) :
                      /\ p.type = EVENT
                      /\ p.event_date # None
                      /\ DateGE(p.event_date[1], event'.now[1]) )
           => ( /\ OneNotice(sent')
                /\ raised' = ""
                /\ store' = store )
      ]_vars

\* A future-events command found the store with a navigation post and
\* with events, all of them past.
C12_Witness ==
    /\ event.kind = "future"
    /\ sent = <<Answer(NO_FUTURE_EVENTS_TEXT, <<>>)>>
    /\ \E p \in StoredPosts(store) : p.type = EVENT
    /\ \E p \in StoredPosts(store) : p.type = CHATS

(***************************************************************************)
(* C13: a created event whose text has no footer, and an edited event      *)
(* whose text has no footer for a message the store holds no Post of,      *)
(* leave the whole store as it was.                                        *)
(***************************************************************************)
NoFooter(txt) == parse_post_footer(txt).value = None

C13_NoFooterNoOp ==
    [][ ( /\ NoFooter(event'.text)
          /\ \/ event'.kind = "created"
             \/ /\ event'.kind = "edited"
                /\ PostsOf(store, event'.message_id) = {} )
        => store' = store
      ]_vars

\* An edited event without a footer, for a message without a Post, was
\* handled while the store held the Post of another message.
C13_Witness ==
    /\ event.kind = "edited"
    /\ repeated
    /\ parse_post_footer(event.text) = [raised |-> "", value |-> None]
    /\ PostsOf(store, event.message_id) = {}
    /\ store # {}

(***************************************************************************)
(* C14, as stated:  only the handlers of created and edited messages       *)
(* change the store; the handling of a query command, its selection and    *)
(* its delivery included, never does.                                      *)
(***************************************************************************)
IsQuery(ev) == ev.kind \in {"nav", "future"}

C14_QueriesNeverWrite ==
    [][IsQuery(event') => store' = store]_vars

(***************************************************************************)
(* C14, restated: a put is issued only by the handlers of created and       *)
(* edited messages; the handling of a query command changes the store      *)
(* only by deleting the Posts whose forward failed with a 'not found'      *)
(* error, and its selection never changes it.                              *)
(***************************************************************************)
\* The items of the posts a command found missing when it forwarded them.
Missing(ev) ==
    {dynamo_format_post(ev.posts[i]) :
        i \in {j \in 1..Len(ev.outcomes) : ev.outcomes[j] \in NotFoundErrors}}

C14_QueriesOnlyCleanUp ==
    [][ /\ ~ (store' \subseteq store) => IsSync(event')
        /\ IsQuery(event') => store' = store \ Missing(event')
      ]_vars

\* A future-events command found its one selected event missing and
\* deleted it, while the store keeps an event that is past.
C14_Witness ==
    /\ event.kind = "future"
    /\ Len(event.outcomes) = 1
    /\ event.outcomes[1] \in NotFoundErrors
    /\ PostsOf(store, event.posts[1].message_id) = {}
    /\ \E p \in StoredPosts(store) :
          p.type = EVENT /\ ~ DateGE(p.event_date[1], event.now[1])

(***************************************************************************)
(* C20, as stated:  every post a future-events command selects (at most    *)
(* three, in ascending date order) ends up forwarded to the user or        *)
(* deleted from the store with a 'content missing' notice.                 *)
(***************************************************************************)
\* The selected posts were processed one by one, in their order.
Delivered(table, out, posts) ==
    /\ Len(out) = Len(posts)
    /\ \A i \in 1..Len(posts) :
          LET m == posts[i].message_id
          IN  \/ out[i] = Forward(CHAT_ID, m)
              \/ /\ out[i] = Answer(MISSING_FORWARD_TEXT,
                                    message_url(CHAT_ID, m))
                 /\ PostsOf(table, m) = {}

\* The handler took some snapshot of the store and delivered all that
\* the selection returns on it.
DeliveredAll(table, now, table2, out) ==
    \E items \in dynamo_scan(table) :
        LET future == future_events(items, DefaultCap, now).value
        IN  Len(future) > 0 => Delivered(table2, out, future)

C20_AllSelectedProcessed ==
    [][event'.kind = "future"
          => DeliveredAll(store, event'.now[1], store', sent')]_vars

(***************************************************************************)
(* C20, restated: unless a forward fails with a transport error other than  *)
(* 'not found', which ends the handler at that post, every post a          *)
(* future-events command selects ends up forwarded to the user or deleted  *)
(* from the store with a 'content missing' notice; a 'not found' failure   *)
(* on one post does not keep the posts after it from being processed.      *)
(***************************************************************************)
NoOtherFailure(ev) ==
    \A i \in 1..Len(ev.outcomes) :
        ev.outcomes[i] \in {""} \cup NotFoundErrors

C20_ContinuesPastStale ==
    [][(event'.kind = "future" /\ NoOtherFailure(event'))
          => /\ DeliveredAll(store, event'.now[1], store', sent')
             /\ raised' = ""]_vars

\* The first selected post was found missing and the second forwarded.
C20_Witness ==
    /\ event.kind = "future"
    /\ Len(event.outcomes) = 2
    /\ event.outcomes[1] \in NotFoundErrors
    /\ event.outcomes[2] = ""
    /\ sent[2] = Forward(CHAT_ID, event.posts[2].message_id)

(***************************************************************************)
(* C16: for every Post that satisfies the data model, parsing the item it  *)
(* is formatted to gives a Post with the same message_id, the same type    *)
(* and the same event_date.                                                *)
(***************************************************************************)
C16_RoundTrip ==
    codec.parsed # None =>
        /\ codec.parsed[1].message_id = codec.post[1].message_id
        /\ codec.parsed[1].type = codec.post[1].type
        /\ codec.parsed[1].event_date = codec.post[1].event_date

\* An event with a message id of three digits, dated on a leap day, went
\* through the round trip.
C16_Witness ==
    /\ codec.parsed # None
    /\ codec.post[1].type = EVENT
    /\ codec.post[1].message_id >= 100
    /\ codec.item[1]["event_date"][S] = <<2032, 2, 29>>

(***************************************************************************)
(* C19: a private message from a user who is not a member of the           *)
(* designated chat (the user is not found, or has left, or is banned) is   *)
(* answered with the not-a-member notice and cancelled: no command         *)
(* handler runs, no post is forwarded, and the store is neither read nor   *)
(* written.                                                                *)
(***************************************************************************)
NonMember == {"UserNotFound", LEFT, BANNED}

C19_MembershipGate ==
    [][(gate'.chat_type = PRIVATE /\ gate'.status \in NonMember)
          => /\ sent' = <<Answer(NOT_CHAT_MEMBER_TEXT, <<>>)>>
             /\ raised' = "CancelHandler"
             /\ gate'.handler = ""
             /\ event'.kind = "cancelled"
             /\ store' = store]_vars

\* A user who has left the chat wrote to the bot while the store holds a
\* post.
C19_Witness ==
    /\ gate = Gate(PRIVATE, LEFT, "")
    /\ sent = <<Answer(NOT_CHAT_MEMBER_TEXT, <<>>)>>
    /\ store # {}

(***************************************************************************)
(* C15: the store handle is acquired once, by connect at startup, and      *)
(* released once, by close at shutdown; close is never applied to a        *)
(* handle that was not acquired; and whenever the serving of a process     *)
(* that acquired the handle ends, the handle is eventually released and    *)
(* is released when the process has exited.                                *)
(***************************************************************************)
Acquired == db.exit_stack # None

Released == db.exit_stack = <<"closed">>

C15_HandleLifecycle ==
    /\ [](life.connects <= 1 /\ life.closes <= life.connects)
    /\ [](raised # "AttributeError")
    /\ [](Acquired <=> life.connects = 1)
    /\ [](Released <=> life.closes = 1)
    /\ [](life.pc \in {"serving", "stopping"} => Acquired /\ ~ Released)
    /\ [](life.pc = "exited" /\ Acquired => Released)
    /\ ((life.pc = "stopping" /\ Acquired) ~> Released)

\* The process served updates, was stopped and exited with the handle
\* released.
C15_Witness ==
    /\ life = Life("exited", 1, 1)
    /\ Released
    /\ store # {}

(***************************************************************************)
(* C17: under every interleaving of the handlers in flight, the record of  *)
(* message m is created, replaced or deleted only by a step of a handler   *)
(* that processes an event for m or forwards the Post of m; the records    *)
(* of all other messages stay as they are.                                 *)
(***************************************************************************)
\* The handler takes the step from tasks to tasks'.
Stepped(t) == CopiesIn(t, tasks') < CopiesIn(t, tasks)

Concerns(t, m) ==
    \/ t.kind \in {"created", "edited"} /\ t.message_id = m
    \/ t.kind = "nav" /\ t.post # None /\ t.post[1].message_id = m

C17_IsolationUnderRaces ==
    [][\A m \in MessageIds :
          PostsOf(store', m) # PostsOf(store, m)
             => \E t \in BagToSet(tasks) : Stepped(t) /\ Concerns(t, m)
      ]_vars

\* An overlapped handler of an edited event has just deleted the Post of
\* its message, while a handler is about to write the Post of another
\* message, which the store holds.
C17_Witness ==
    \E m \in MessageIds, t \in BagToSet(tasks) :
        /\ lastWrite.raced = m
        /\ PostsOf(store, m) = {}
        /\ t.pc \in {"put", "delete"}
        /\ ~ Concerns(t, m)
        /\ \E n \in MessageIds : Concerns(t, n) /\ PostsOf(store, n) # {}

(***************************************************************************)
(* C18: when the handlers of two edited events for the same message        *)
(* overlap, once both have finished the store holds for the message what   *)
(* the last write left: nothing after a delete, and after a put exactly    *)
(* the Post built from the footer of the one edit that issued it, never a  *)
(* mixture of two footers.                                                 *)
(***************************************************************************)
C18_LastWriteWins ==
    \A m \in MessageIds :
        Edits(tasks, m) = {}
           => LET ftr == lastWrite.footer[m]
              IN  PostsOf(store, m) =
                     IF ftr = None THEN {}
                     ELSE {Post(m, ftr[1].type, ftr[1].event_date)}

\* Two overlapping edits of a message that held an event have finished;
\* the last write put the Post of the navigation footer.
C18_Witness ==
    \E m \in MessageIds :
        /\ Edits(tasks, m) = {}
        /\ lastWrite.raced = m
        /\ lastWrite.footer[m] = <<PostFooter(CHATS, None)>>
        /\ PostsOf(store, m) = {Post(m, CHATS, None)}

====
